---- MODULE Spec2Model ----
(***************************************************************************)
(* Model of the SRL analysis pipeline of app/srl/analyzer.py:              *)
(* the Mapping Store built by SRLAnalyzer.__init__, the predicate          *)
(* resolver, the prompt builder, the LLM call and the role conversion of   *)
(* SRLAnalyzer.analyze.                                                    *)
(*                                                                         *)
(* A sentence is a sequence of words (the tokenizer is an opaque           *)
(* capability that tags each word); every other string the code searches   *)
(* or splits (role texts of the LLM output, example annotations) is a      *)
(* sequence of one-character strings.                                      *)
(***************************************************************************)
EXTENDS Integers, Sequences, FiniteSets, TLC

\* ------------------------------------------------------------------ bounds
MaxTokens == 2      \* longest sentence, in tokens
MaxRoles  == 2      \* most role entries in one LLM output
MaxCorpus == 3      \* most examples in the example corpus
NumCalls  == 2      \* analyze calls in flight in the concurrent specification

\* ------------------------------------------------------- program constants
ExamplesPerPrompt == 2     \* analyzer.py:101  [:2]
TextMinLength     == 1     \* models.py:8      min_length
TextMaxLength     == 64    \* models.py:8      max_length

RoleLabels ==
    {"Cause", "Experiencer", "Causator", "Deliberative", "Instrument",
     "Object", "Not-Applicable"}

Nil  == [nil |-> TRUE]     \* an unset dict-valued or object-valued name
None == "None"              \* Python None where a str is expected

\* ------------------------------------------------------------ str methods
\* the k-th smallest element of a set of positions
Kth(S, k) == CHOOSE i \in S : Cardinality({j \in S : j <= i}) = k

\* str.find(ch): 0-based index of the first occurrence, -1 when absent
find(s, ch) ==
    LET at == {i \in 1..Len(s) : s[i] = ch}
    IN  IF at = {} THEN -1 ELSE Kth(at, 1) - 1

\* s[a:b] for 0 <= a, 0 <= b (Python slice, empty when b <= a)
Slice(s, a, b) ==
    LET hi == IF b > Len(s) THEN Len(s) ELSE b
    IN  IF hi <= a THEN <<>> ELSE SubSeq(s, a + 1, hi)

\* str.split(): the maximal runs of non-blank characters, in order
WordStarts(s) ==
    {i \in 1..Len(s) : s[i] /= " " /\ (i = 1 \/ s[i - 1] = " ")}

WordEnd(s, i) ==
    CHOOSE j \in i..Len(s) :
        /\ \A k \in i..j : s[k] /= " "
        /\ (j = Len(s) \/ s[j + 1] = " ")

split(s) ==
    LET starts == WordStarts(s)
    IN  [k \in 1..Cardinality(starts) |->
            SubSeq(s, Kth(starts, k), WordEnd(s, Kth(starts, k)))]

\* str.split(sep) for a one-character separator: pieces may be empty
RECURSIVE SplitOnFrom(_, _, _, _)
SplitOnFrom(s, sep, cur, acc) ==
    IF s = <<>> THEN Append(acc, cur)
    ELSE IF Head(s) = sep
         THEN SplitOnFrom(Tail(s), sep, <<>>, Append(acc, cur))
         ELSE SplitOnFrom(Tail(s), sep, Append(cur, Head(s)), acc)

split_on(s, sep) == SplitOnFrom(s, sep, <<>>, <<>>)

\* str.strip(chars): drop leading and trailing characters of the set
RECURSIVE LStrip(_, _)
LStrip(s, chars) ==
    IF s /= <<>> /\ Head(s) \in chars THEN LStrip(Tail(s), chars) ELSE s

RECURSIVE RStrip(_, _)
RStrip(s, chars) ==
    IF s /= <<>> /\ s[Len(s)] \in chars
    THEN RStrip(SubSeq(s, 1, Len(s) - 1), chars) ELSE s

strip(s, chars) == RStrip(LStrip(s, chars), chars)

\* sub in s
contains(s, sub) ==
    \E i \in 0..(Len(s) - Len(sub)) : SubSeq(s, i + 1, i + Len(sub)) = sub

\* ---------------------------------------------------------------- spaCy
\* The tokenizer/lemmatizer: one token (text, lemma_, pos_) per word.
Words == {"boyus", "nravitsya", "temnoty"}

Token(w) ==
    CASE w = "boyus"     -> [text |-> w, lemma_ |-> "boyatsya",  pos_ |-> "VERB"]
      [] w = "nravitsya" -> [text |-> w, lemma_ |-> "nravitsya_", pos_ |-> "VERB"]
      [] w = "temnoty"   -> [text |-> w, lemma_ |-> "temnota",   pos_ |-> "NOUN"]
      [] OTHER           -> [text |-> w, lemma_ |-> w,           pos_ |-> "NOUN"]

nlp(t) == [i \in 1..Len(t) |-> Token(t[i])]

lemmatize(word) == Head(nlp(<<word>>)).lemma_

\* ------------------------------------------------------------ the tables
Groups == {"fear", "like"}

RuleOf(g) == <<"rules", g>>

\* role-mapping.json: a rule set for some of the groups
RoleTables == {[g \in D |-> RuleOf(g)] : D \in SUBSET Groups}

\* form-mapping.json: group -> list of surface forms, in file order
FormLists(g) ==
    IF g = "fear"
    THEN {<<>>, <<"boyus">>, <<"boyus", "temnoty">>}
    ELSE {<<>>, <<"nravitsya">>, <<"nravitsya", "boyus">>}

FormTables ==
    {<<[group |-> "fear", forms |-> f], [group |-> "like", forms |-> l]>> :
        f \in FormLists("fear"), l \in FormLists("like")}

\* "- ya # Experiencer" and "boyus #predicate"
ExampleRoles ==
    << [entity |-> <<"-", " ", "y", "a", " ", "#", " ", "E", "x", "p">>],
       [entity |-> <<"b", "o", "y", "u", "s", " ", "#", "p", "r", "e", "d",
                     "i", "c", "a", "t", "e">>] >>

Example(i, g) ==
    [group |-> g, text |-> <<"primer", ToString(i)>>, roles |-> ExampleRoles]

\* groupped_examples.json: a list of examples, each tagged with its group
Corpora ==
    UNION {{[i \in 1..n |-> Example(i, gs[i])] : gs \in [1..n -> Groups]} :
              n \in 0..MaxCorpus}

VARIABLES
    role_mapping,          \* self.role_mapping
    form_mapping,          \* self.form_mapping
    examples,              \* self.examples
    inv_form_mapping,      \* self.inv_form_mapping: lemma -> group
    inv_examples_mapping,  \* self.inv_examples_mapping: group -> examples
    pc,                    \* per call: position in analyze
    arg,                   \* per call: the string analyze was called with
    text,                  \* per call: the local name `text`
    predicates,            \* per call: local `predicates`
    lemmas,                \* per call: local `lemmas`
    predicate_group,       \* per call: local `predicate_group`
    prompt,                \* per call: local `prompt`
    response,              \* per call: what the LLM call did
    result,                \* per call: the returned dict
    raised,                \* per call: the exception analyze raised
    gwCalls,               \* per call: number of LLM calls made
    trace                  \* per call: the steps taken, in order

store == <<role_mapping, form_mapping, examples, inv_form_mapping,
           inv_examples_mapping>>

locals == <<pc, arg, text, predicates, lemmas, predicate_group, prompt,
            response, result, raised, gwCalls, trace>>

vars == <<store, locals>>

\* ------------------------------------------------------- SRLAnalyzer.__init__
Put(f, k, v) == [x \in (DOMAIN f) \cup {k} |-> IF x = k THEN v ELSE f[x]]

EmptyDict == [x \in {} |-> Nil]

RECURSIVE AddForms(_, _, _)
AddForms(inv, group, forms) ==
    IF forms = <<>> THEN inv
    ELSE AddForms(Put(inv, lemmatize(Head(forms)), group), group, Tail(forms))

RECURSIVE InverseForms(_, _)
InverseForms(inv, table) ==
    IF table = <<>> THEN inv
    ELSE InverseForms(AddForms(inv, Head(table).group, Head(table).forms),
                      Tail(table))

create_inverse_form_mapping(table) == InverseForms(EmptyDict, table)

RECURSIVE InverseExamples(_, _)
InverseExamples(inv, exs) ==
    IF exs = <<>> THEN inv
    ELSE LET ex    == Head(exs)
             group == ex.group
             cur   == IF group \in DOMAIN inv THEN inv[group] ELSE <<>>
         IN  InverseExamples(Put(inv, group, Append(cur, ex)), Tail(exs))

create_inverse_examples_mapping(exs) == InverseExamples(EmptyDict, exs)

\* --------------------------------------------------- predicate resolver
IsVerb(tok) == tok.pos_ = "VERB"

\* find_verbs without the part-of-speech test
find_verbs_any_pos(t) ==
    [verbs |-> [i \in 1..Len(t) |-> nlp(t)[i].lemma_],
     forms |-> [i \in 1..Len(t) |-> nlp(t)[i].text]]

\* find_verbs: (verbs, forms) of the VERB tokens, in order
find_verbs(t) ==
    LET sel == SelectSeq(nlp(t), IsVerb)
    IN  [verbs |-> [i \in 1..Len(sel) |-> sel[i].lemma_],
         forms |-> [i \in 1..Len(sel) |-> sel[i].text]]

\* has_relevant_predicates: some verb lemma is a key of inv_form_mapping
has_relevant_predicates(t) ==
    LET v == find_verbs(t).verbs
    IN  {v[i] : i \in 1..Len(v)} \cap (DOMAIN inv_form_mapping) /= {}

IsMapped(pair) == pair[1] \in DOMAIN inv_form_mapping

\* extract_predicates that stops at the first mapped verb
extract_predicates_first_only(t) ==
    LET v     == find_verbs(t)
        pairs == [i \in 1..Len(v.verbs) |-> <<v.verbs[i], v.forms[i]>>]
        sel   == SelectSeq(pairs, IsMapped)
        n     == IF Len(sel) > 1 THEN 1 ELSE Len(sel)
    IN  [forms  |-> [i \in 1..n |-> sel[i][2]],
         lemmas |-> [i \in 1..n |-> sel[i][1]]]

\* extract_predicates: (forms, lemmas) of the verbs whose lemma is mapped
extract_predicates(t) ==
    LET v     == find_verbs(t)
        pairs == [i \in 1..Len(v.verbs) |-> <<v.verbs[i], v.forms[i]>>]
        sel   == SelectSeq(pairs, IsMapped)
    IN  [forms  |-> [i \in 1..Len(sel) |-> sel[i][2]],
         lemmas |-> [i \in 1..Len(sel) |-> sel[i][1]]]

\* get_predicate_group: group of the first mapped lemma, None when there is none
RECURSIVE get_predicate_group(_)
get_predicate_group(ls) ==
    IF ls = <<>> THEN None
    ELSE IF Head(ls) \in DOMAIN inv_form_mapping
         THEN inv_form_mapping[Head(ls)]
         ELSE get_predicate_group(Tail(ls))

\* line 180 reading the last lemma instead of the first
GroupOfLast(ls) == inv_form_mapping[ls[Len(ls)]]

\* analyze, line 180: predicate_group = self.inv_form_mapping[lemmas[0]]
GroupOfFirst(ls) == inv_form_mapping[ls[1]]

\* ------------------------------------------------------------ make_prompt
PredicateMark == <<"#", "p", "r", "e", "d", "i", "c", "a", "t", "e">>

Raise(e) == [ok |-> FALSE, error |-> e]

\* the assistant turn of one example: its roles, re-encoded
RECURSIVE EncodeRoles(_, _)
EncodeRoles(rs, acc) ==
    IF rs = <<>> THEN [ok |-> TRUE, roles |-> acc]
    ELSE LET entity == Head(rs).entity
         IN  IF contains(entity, PredicateMark)
             THEN EncodeRoles(Tail(rs), acc)
             ELSE LET role_parts == split_on(entity, "#")
                      phrase     == strip(role_parts[1], {"-", " "})
                  IN  IF Len(role_parts) < 2 \/ split(phrase) = <<>>
                      THEN Raise("IndexError")
                      ELSE EncodeRoles(Tail(rs), Append(acc,
                             [short_reasoning |-> "Example role from training data",
                              arg_role |-> role_parts[2],
                              arg_phrase_or_clause |-> phrase,
                              arg_main_indicative_word |-> split(phrase)[1]]))

RECURSIVE AddExamples(_, _)
AddExamples(example_set, acc) ==
    IF example_set = <<>> THEN [ok |-> TRUE, prompt |-> acc]
    ELSE LET ex  == Head(example_set)
             enc == EncodeRoles(ex.roles, <<>>)
         IN  IF ~enc.ok THEN enc
             ELSE AddExamples(Tail(example_set),
                    acc \o <<[role |-> "user",
                              content |-> [frame |-> "example", body |-> ex.text]],
                             [role |-> "assistant",
                              content |-> [frame |-> "roles", body |-> enc.roles]]>>)

\* make_prompt without the [:2] of line 101: every example of the group
make_prompt_all_examples(t, group) ==
    IF group \notin DOMAIN role_mapping THEN Raise("KeyError")
    ELSE IF group \notin DOMAIN inv_examples_mapping THEN Raise("KeyError")
    ELSE LET example_set == inv_examples_mapping[group]
             sys         == [role |-> "system",
                             content |-> [frame |-> "task",
                                          body  |-> role_mapping[group]]]
             shots       == AddExamples(example_set, <<sys>>)
         IN  IF ~shots.ok THEN shots
             ELSE [ok |-> TRUE,
                   prompt |-> Append(shots.prompt,
                                [role |-> "user",
                                 content |-> [frame |-> "query", body |-> t]])]

\* make_prompt(text, predicate_group): the messages, or the exception raised
make_prompt(t, group) ==
    IF group \notin DOMAIN role_mapping THEN Raise("KeyError")
    ELSE IF group \notin DOMAIN inv_examples_mapping THEN Raise("KeyError")
    ELSE LET all         == inv_examples_mapping[group]
             example_set == Slice(all, 0, ExamplesPerPrompt)
             sys         == [role |-> "system",
                             content |-> [frame |-> "task",
                                          body  |-> role_mapping[group]]]
             shots       == AddExamples(example_set, <<sys>>)
         IN  IF ~shots.ok THEN shots
             ELSE [ok |-> TRUE,
                   prompt |-> Append(shots.prompt,
                                [role |-> "user",
                                 content |-> [frame |-> "query", body |-> t]])]

\* -------------------------------------------------------- the LLM Gateway
\* Role texts the model may emit
TextAB    == <<"x", " ", "(", "a", " ", "b", ")">>      \* "x (a b)"
TextOpen  == <<"(", "a">>                                \* "(a"
TextClose == <<"a", ")">>                                \* "a)"
TextBlank == <<"x", "(", " ", ")">>                      \* "x( )"
TextLong  == <<"(">> \o [i \in 1..(TextMaxLength + 1) |-> "a"] \o <<")">>

Obj(members) == [t |-> "object", members |-> members]

\* Entries of the "roles" array: with or without each of the two fields
Entries ==
    { Obj([role |-> "Experiencer", text |-> TextAB]),
      Obj([role |-> "Object",      text |-> TextAB]),
      Obj([role |-> "Cause",       text |-> TextOpen]),
      Obj([role |-> "Experiencer", text |-> TextClose]),
      Obj([role |-> "Object",      text |-> TextBlank]),
      Obj([role |-> "Agent",       text |-> TextAB]),
      Obj([role |-> "Object",      text |-> TextLong]),
      Obj([role |-> "Object"]),
      Obj([text |-> TextAB]) }

RoleArrays(n) == UNION {[1..k -> Entries] : k \in 0..n}

\* message.content of a completed call: None, a string that is not JSON, or
\* the JSON text of a value
Contents(n) ==
    { [t |-> "none"],
      [t |-> "str", json |-> FALSE],
      [t |-> "str", json |-> TRUE, value |-> [t |-> "array"]],
      [t |-> "str", json |-> TRUE, value |-> Obj([other |-> [t |-> "null"]])],
      [t |-> "str", json |-> TRUE, value |-> Obj([roles |-> [t |-> "null"]])] }
    \cup
    { [t |-> "str", json |-> TRUE,
       value |-> Obj([roles |-> [t |-> "array", items |-> a]])] :
         a \in RoleArrays(n) }

\* str(e) of the exceptions the call may raise; an exception built without
\* arguments has the empty string
ErrorStrings == {<<"C", "o", "n", "n", "e", "c", "t", "i", "o", "n", " ",
                   "e", "r", "r", "o", "r", ".">>, <<>>}

Outcomes(n) ==
    {[kind |-> "raise", str |-> m] : m \in ErrorStrings}
    \cup {[kind |-> "content", content |-> b] : b \in Contents(n)}

\* ------------------------------------------ analyze, lines 201-231: roles
\* The loop over llm_roles; `txt` is the local name `text`, which the loop
\* body assigns (line 209).
RECURSIVE ConvertLoop(_, _, _)
ConvertLoop(llm_roles, roles, txt) ==
    IF llm_roles = <<>> THEN [ok |-> TRUE, roles |-> roles, text |-> txt]
    ELSE LET role == Head(llm_roles)
         IN  IF role.t /= "object" \/ "text" \notin DOMAIN role.members
             THEN [ok |-> FALSE, roles |-> <<>>, text |-> txt]
             ELSE LET t2        == role.members.text
                      start_idx == find(t2, "(")
                      end_idx   == find(t2, ")")
                  IN  IF start_idx /= -1 /\ end_idx /= -1
                      THEN LET parentheses_content == Slice(t2, start_idx + 1, end_idx)
                               words == split(parentheses_content)
                           IN  IF "role" \notin DOMAIN role.members \/ words = <<>>
                               THEN [ok |-> FALSE, roles |-> <<>>, text |-> t2]
                               ELSE LET phrase ==
                                          IF role.members.role = "Experiencer"
                                          THEN words[1]
                                          ELSE words[Len(words)]
                                    IN  ConvertLoop(Tail(llm_roles),
                                          Append(roles,
                                            [role |-> role.members.role,
                                             text |-> phrase]),
                                          t2)
                      ELSE ConvertLoop(Tail(llm_roles), roles, t2)

\* json.loads(roles_text)['roles'] and the loop, inside try/except Exception:
\* any exception leaves roles = []
ConvertRoles(roles_text, txt) ==
    IF roles_text.t /= "str" \/ ~roles_text.json
    THEN [ok |-> FALSE, roles |-> <<>>, text |-> txt]
    ELSE LET parsed_json == roles_text.value
         IN  IF parsed_json.t /= "object"
                \/ "roles" \notin DOMAIN parsed_json.members
                \/ parsed_json.members.roles.t /= "array"
             THEN [ok |-> FALSE, roles |-> <<>>, text |-> txt]
             ELSE ConvertLoop(parsed_json.members.roles.items, <<>>, txt)

\* ----------------------------------------------------------------- inputs
Texts(n) == UNION {[1..k -> Words] : k \in 0..n}

\* ------------------------------------------------------------------- Init
InitStore ==
    /\ role_mapping \in RoleTables
    /\ form_mapping \in FormTables
    /\ examples \in Corpora
    /\ inv_form_mapping = create_inverse_form_mapping(form_mapping)
    /\ inv_examples_mapping = create_inverse_examples_mapping(examples)

InitCalls(C) ==
    /\ pc = [c \in C |-> "idle"]
    /\ arg = [c \in C |-> <<>>]
    /\ text = [c \in C |-> <<>>]
    /\ predicates = [c \in C |-> <<>>]
    /\ lemmas = [c \in C |-> <<>>]
    /\ predicate_group = [c \in C |-> None]
    /\ prompt = [c \in C |-> <<>>]
    /\ response = [c \in C |-> Nil]
    /\ result = [c \in C |-> Nil]
    /\ raised = [c \in C |-> Nil]
    /\ gwCalls = [c \in C |-> 0]
    /\ trace = [c \in C |-> <<>>]

\* one analyze call
OneCall == {1}

Init == InitStore /\ InitCalls(OneCall)

\* ------------------------------------------------------- analyze, by steps
\* analyze(text) is called
Call(c, T) ==
    /\ pc[c] = "idle"
    /\ \E t \in T :
         /\ arg' = [arg EXCEPT ![c] = t]
         /\ text' = [text EXCEPT ![c] = t]
    /\ pc' = [pc EXCEPT ![c] = "check"]
    /\ UNCHANGED <<store, predicates, lemmas, predicate_group, prompt,
                   response, result, raised, gwCalls, trace>>

\* lines 167-175: the relevance check and the early return
PredicateCheck(c) ==
    /\ pc[c] = "check"
    /\ IF ~has_relevant_predicates(text[c])
       THEN /\ result' = [result EXCEPT ![c] =
                            [text |-> text[c], predicates |-> <<>>,
                             lemmas |-> <<>>, roles |-> <<>>,
                             has_relevant_predicates |-> FALSE]]
            /\ pc' = [pc EXCEPT ![c] = "returned"]
            /\ trace' = [trace EXCEPT ![c] = @ \o <<"PredicateCheck", "Irrelevant">>]
       ELSE /\ pc' = [pc EXCEPT ![c] = "resolve"]
            /\ trace' = [trace EXCEPT ![c] = Append(@, "PredicateCheck")]
            /\ UNCHANGED result
    /\ UNCHANGED <<store, arg, text, predicates, lemmas, predicate_group,
                   prompt, response, raised, gwCalls>>

\* lines 177-181 with a lookup that consumes the FormIndex entry
\* (self.inv_form_mapping.pop(lemmas[0]))
ResolveGroup_pop(c) ==
    /\ pc[c] = "resolve"
    /\ LET ex == extract_predicates(text[c])
       IN  /\ predicates' = [predicates EXCEPT ![c] = ex.forms]
           /\ lemmas' = [lemmas EXCEPT ![c] = ex.lemmas]
           /\ ex.lemmas /= <<>>
           /\ predicate_group' =
                 [predicate_group EXCEPT ![c] = GroupOfFirst(ex.lemmas)]
           /\ inv_form_mapping' =
                 [l \in (DOMAIN inv_form_mapping) \ {ex.lemmas[1]} |->
                    inv_form_mapping[l]]
           /\ pc' = [pc EXCEPT ![c] = "build"]
           /\ trace' = [trace EXCEPT ![c] = Append(@, "GroupResolved")]
    /\ UNCHANGED <<role_mapping, form_mapping, examples, inv_examples_mapping,
                   arg, text, prompt, response, result, raised, gwCalls>>

\* lines 177-181: the predicates and the group of the first lemma
ResolveGroup(c) ==
    /\ pc[c] = "resolve"
    /\ LET ex == extract_predicates(text[c])
       IN  /\ predicates' = [predicates EXCEPT ![c] = ex.forms]
           /\ lemmas' = [lemmas EXCEPT ![c] = ex.lemmas]
           /\ IF ex.lemmas = <<>>
              THEN /\ raised' = [raised EXCEPT ![c] = [type |-> "IndexError"]]
                   /\ pc' = [pc EXCEPT ![c] = "raised"]
                   /\ UNCHANGED <<predicate_group, trace>>
              ELSE /\ predicate_group' =
                        [predicate_group EXCEPT ![c] = GroupOfFirst(ex.lemmas)]
                   /\ pc' = [pc EXCEPT ![c] = "build"]
                   /\ trace' = [trace EXCEPT ![c] = Append(@, "GroupResolved")]
                   /\ UNCHANGED raised
    /\ UNCHANGED <<store, arg, text, prompt, response, result, gwCalls>>

\* lines 183-184: make_prompt, outside any try block
BuildPrompt(c) ==
    /\ pc[c] = "build"
    /\ LET p == make_prompt(text[c], predicate_group[c])
       IN  IF p.ok
           THEN /\ prompt' = [prompt EXCEPT ![c] = p.prompt]
                /\ pc' = [pc EXCEPT ![c] = "llm"]
                /\ trace' = [trace EXCEPT ![c] = Append(@, "PromptBuilt")]
                /\ UNCHANGED raised
           ELSE /\ raised' = [raised EXCEPT ![c] = [type |-> p.error]]
                /\ pc' = [pc EXCEPT ![c] = "raised"]
                /\ UNCHANGED <<prompt, trace>>
    /\ UNCHANGED <<store, arg, text, predicates, lemmas, predicate_group,
                   response, result, gwCalls>>

\* lines 186-199 with one retry: the first exception of the LLM call is
\* swallowed and the call is made again
CallLLM_retry(c, O) ==
    /\ pc[c] = "llm"
    /\ gwCalls' = [gwCalls EXCEPT ![c] = @ + 1]
    /\ \E out \in O :
         /\ response' = [response EXCEPT ![c] = out]
         /\ IF out.kind = "raise" /\ gwCalls[c] = 0
            THEN /\ trace' = [trace EXCEPT ![c] = Append(@, "LLMCalled")]
                 /\ UNCHANGED <<pc, result>>
            ELSE IF out.kind = "raise"
            THEN /\ result' = [result EXCEPT ![c] =
                                 [text |-> text[c], predicates |-> predicates[c],
                                  lemmas |-> lemmas[c], roles |-> <<>>,
                                  has_relevant_predicates |-> TRUE,
                                  error |-> out.str]]
                 /\ pc' = [pc EXCEPT ![c] = "returned"]
                 /\ trace' = [trace EXCEPT ![c] = @ \o <<"LLMCalled", "LLMFailed">>]
            ELSE /\ pc' = [pc EXCEPT ![c] = "convert"]
                 /\ trace' = [trace EXCEPT ![c] = Append(@, "LLMCalled")]
                 /\ UNCHANGED result
    /\ UNCHANGED <<store, arg, text, predicates, lemmas, predicate_group,
                   prompt, raised>>

\* lines 186-199 and 242-251: the LLM call; an exception returns the
\* degraded result with error = str(e)
CallLLM(c, O) ==
    /\ pc[c] = "llm"
    /\ gwCalls' = [gwCalls EXCEPT ![c] = @ + 1]
    /\ \E out \in O :
         /\ response' = [response EXCEPT ![c] = out]
         /\ IF out.kind = "raise"
            THEN /\ result' = [result EXCEPT ![c] =
                                 [text |-> text[c], predicates |-> predicates[c],
                                  lemmas |-> lemmas[c], roles |-> <<>>,
                                  has_relevant_predicates |-> TRUE,
                                  error |-> out.str]]
                 /\ pc' = [pc EXCEPT ![c] = "returned"]
                 /\ trace' = [trace EXCEPT ![c] = @ \o <<"LLMCalled", "LLMFailed">>]
            ELSE /\ pc' = [pc EXCEPT ![c] = "convert"]
                 /\ trace' = [trace EXCEPT ![c] = Append(@, "LLMCalled")]
                 /\ UNCHANGED result
    /\ UNCHANGED <<store, arg, text, predicates, lemmas, predicate_group,
                   prompt, raised>>

\* lines 201-240 without the inner try/except: a conversion error reaches
\* the outer handler, which returns the degraded result
Normalize_propagate(c) ==
    /\ pc[c] = "convert"
    /\ LET conv == ConvertRoles(response[c].content, text[c])
       IN  /\ text' = [text EXCEPT ![c] = conv.text]
           /\ result' = [result EXCEPT ![c] =
                           IF conv.ok
                           THEN [text |-> conv.text, predicates |-> predicates[c],
                                 lemmas |-> lemmas[c], roles |-> conv.roles,
                                 has_relevant_predicates |-> TRUE]
                           ELSE [text |-> conv.text, predicates |-> predicates[c],
                                 lemmas |-> lemmas[c], roles |-> <<>>,
                                 has_relevant_predicates |-> TRUE,
                                 error |-> <<"e">>]]
           /\ trace' = [trace EXCEPT ![c] =
                          Append(@, IF conv.ok THEN "Normalized" ELSE "LLMFailed")]
    /\ pc' = [pc EXCEPT ![c] = "returned"]
    /\ UNCHANGED <<store, arg, predicates, lemmas, predicate_group, prompt,
                   response, raised, gwCalls>>

\* lines 201-240: the role conversion and the result
Normalize(c) ==
    /\ pc[c] = "convert"
    /\ LET conv == ConvertRoles(response[c].content, text[c])
       IN  /\ text' = [text EXCEPT ![c] = conv.text]
           /\ result' = [result EXCEPT ![c] =
                           [text |-> conv.text, predicates |-> predicates[c],
                            lemmas |-> lemmas[c], roles |-> conv.roles,
                            has_relevant_predicates |-> TRUE]]
    /\ pc' = [pc EXCEPT ![c] = "returned"]
    /\ trace' = [trace EXCEPT ![c] = Append(@, "Normalized")]
    /\ UNCHANGED <<store, arg, predicates, lemmas, predicate_group, prompt,
                   response, raised, gwCalls>>

AllTexts == Texts(MaxTokens)
AllOutcomes == Outcomes(MaxRoles)

\* one outcome of each kind: an exception, an unreadable answer, one role
SampleOutcomes ==
    { [kind |-> "raise", str |-> <<>>],
      [kind |-> "content", content |-> [t |-> "str", json |-> FALSE]],
      [kind |-> "content",
       content |-> [t |-> "str", json |-> TRUE,
                    value |-> Obj([roles |-> [t |-> "array", items |->
                        <<Obj([role |-> "Experiencer", text |-> TextAB])>>]])]] }

\* every exception and every answer without role entries, and the samples
PlainOutcomes == Outcomes(0) \cup SampleOutcomes

OneWordTexts == {<<w>> : w \in Words}

\* Every store and every sentence; the LLM answers carry at most one role.
Next ==
    \/ \E c \in OneCall : Call(c, AllTexts)
    \/ \E c \in OneCall : PredicateCheck(c)
    \/ \E c \in OneCall : ResolveGroup(c)
    \/ \E c \in OneCall : BuildPrompt(c)
    \/ \E c \in OneCall : CallLLM(c, PlainOutcomes)
    \/ \E c \in OneCall : Normalize(c)

Spec == Init /\ [][Next]_vars

\* Every LLM outcome, on one-word sentences and a store with one example
\* for each group.
SmallStore ==
    /\ role_mapping \in RoleTables
    /\ form_mapping \in FormTables
    /\ examples = <<Example(1, "fear"), Example(2, "like")>>
    /\ inv_form_mapping = create_inverse_form_mapping(form_mapping)
    /\ inv_examples_mapping = create_inverse_examples_mapping(examples)

InitOutput == SmallStore /\ InitCalls(OneCall)

NextOutput ==
    \/ \E c \in OneCall : Call(c, OneWordTexts)
    \/ \E c \in OneCall : PredicateCheck(c)
    \/ \E c \in OneCall : ResolveGroup(c)
    \/ \E c \in OneCall : BuildPrompt(c)
    \/ \E c \in OneCall : CallLLM(c, AllOutcomes)
    \/ \E c \in OneCall : Normalize(c)

SpecOutput == InitOutput /\ [][NextOutput]_vars

\* --------------------------------------------- analyze, from call to return
\* What one analyze(t) does when the LLM call, if made, does `out`
analyze(t, out) ==
    IF ~has_relevant_predicates(t)
    THEN [kind |-> "return",
          value |-> [text |-> t, predicates |-> <<>>, lemmas |-> <<>>,
                     roles |-> <<>>, has_relevant_predicates |-> FALSE]]
    ELSE LET ex == extract_predicates(t)
             p  == make_prompt(t, GroupOfFirst(ex.lemmas))
         IN  IF ~p.ok THEN [kind |-> "raise", error |-> [type |-> p.error]]
             ELSE IF out.kind = "raise"
             THEN [kind |-> "return",
                   value |-> [text |-> t, predicates |-> ex.forms,
                              lemmas |-> ex.lemmas, roles |-> <<>>,
                              has_relevant_predicates |-> TRUE,
                              error |-> out.str]]
             ELSE LET conv == ConvertRoles(out.content, t)
                  IN  [kind |-> "return",
                       value |-> [text |-> conv.text, predicates |-> ex.forms,
                                  lemmas |-> ex.lemmas, roles |-> conv.roles,
                                  has_relevant_predicates |-> TRUE]]

\* ------------------------------------ concurrent calls on one analyzer
\* get_analyzer (api.py) hands the same SRLAnalyzer to every request
ManyCalls == 1..NumCalls

InitConc == SmallStore /\ InitCalls(ManyCalls)

NextConc ==
    \/ \E c \in ManyCalls : Call(c, OneWordTexts)
    \/ \E c \in ManyCalls : PredicateCheck(c)
    \/ \E c \in ManyCalls : ResolveGroup(c)
    \/ \E c \in ManyCalls : BuildPrompt(c)
    \/ \E c \in ManyCalls : CallLLM(c, SampleOutcomes)
    \/ \E c \in ManyCalls : Normalize(c)

SpecConc == InitConc /\ [][NextConc]_vars

\* ================================================================ claims
Calls == DOMAIN pc

Returned(c) == pc[c] = "returned"

GatewayRaised(c) == response[c] /= Nil /\ response[c].kind = "raise"

GatewayAnswered(c) == response[c] /= Nil /\ response[c].kind = "content"

\* positions of the VERB tokens of t whose lemma is a FormIndex key
MatchIdx(t) ==
    {i \in 1..Len(t) : /\ Token(t[i]).pos_ = "VERB"
                       /\ Token(t[i]).lemma_ \in DOMAIN inv_form_mapping}

\* C1: analyze never raises; every failure after tokenization (prompt
\* building or the Gateway) ends in a returned result with
\* has_relevant_predicates = true, the extracted predicates and lemmas, empty
\* roles and a populated error field.
C1_NeverRaises ==
    \A c \in Calls :
        /\ pc[c] /= "raised"
        /\ (Returned(c) /\ GatewayRaised(c)) =>
              /\ result[c].has_relevant_predicates
              /\ result[c].predicates = predicates[c]
              /\ result[c].lemmas = lemmas[c]
              /\ result[c].roles = <<>>
              /\ "error" \in DOMAIN result[c]
              /\ result[c].error /= <<>>

\* C2: a text with no VERB token whose lemma is a FormIndex key is answered
\* with has_relevant_predicates = false and empty predicates, lemmas and
\* roles, and the Gateway is never called while it is analyzed.
C2_IrrelevantShortCircuit ==
    \A c \in Calls :
        (pc[c] /= "idle" /\ MatchIdx(arg[c]) = {}) =>
            /\ gwCalls[c] = 0
            /\ pc[c] \in {"check", "returned"}
            /\ Returned(c) =>
                  /\ result[c].has_relevant_predicates = FALSE
                  /\ result[c].predicates = <<>>
                  /\ result[c].lemmas = <<>>
                  /\ result[c].roles = <<>>

\* a verb that is not mapped next to a noun whose lemma is mapped
C2_Witness ==
    \E c \in Calls :
        /\ Returned(c)
        /\ MatchIdx(arg[c]) = {}
        /\ \E i \in 1..Len(arg[c]) : Token(arg[c][i]).pos_ = "VERB"
        /\ \E i \in 1..Len(arg[c]) :
              Token(arg[c][i]).lemma_ \in DOMAIN inv_form_mapping
        /\ result[c].has_relevant_predicates = FALSE

\* C3: when the Gateway call raises, the result has
\* has_relevant_predicates = true, non-empty predicates and lemmas, roles = []
\* and a non-empty error string, whatever the exception.
C3_GatewayFailureDegrades ==
    \A c \in Calls :
        (Returned(c) /\ GatewayRaised(c)) =>
            /\ result[c].has_relevant_predicates
            /\ result[c].predicates /= <<>>
            /\ result[c].lemmas /= <<>>
            /\ result[c].roles = <<>>
            /\ "error" \in DOMAIN result[c]
            /\ result[c].error /= <<>>

\* C4: in a result with has_relevant_predicates = true, predicates and lemmas
\* are non-empty, of equal length, and are position by position the surface
\* form and the lemma of the VERB tokens whose lemma is a FormIndex key, in
\* token order.
C4_PredicatesAreMatches ==
    \A c \in Calls :
        (Returned(c) /\ result[c].has_relevant_predicates) =>
            LET M == MatchIdx(arg[c])
                P == result[c].predicates
                L == result[c].lemmas
            IN  /\ P /= <<>>
                /\ Len(P) = Len(L)
                /\ Len(P) = Cardinality(M)
                /\ \A k \in 1..Len(P) :
                      /\ P[k] = Token(arg[c][Kth(M, k)]).text
                      /\ L[k] = Token(arg[c][Kth(M, k)]).lemma_

\* two matching verbs are reported, in order
C4_Witness ==
    \E c \in Calls :
        /\ Returned(c)
        /\ result[c].has_relevant_predicates
        /\ Len(result[c].predicates) = 2
        /\ result[c].predicates[1] /= result[c].predicates[2]

\* C5: the group the prompt is built for is the FormIndex group of the first
\* verb lemma, in token order, that has a FormIndex entry; it is what
\* get_predicate_group returns for the sentence's verb lemmas, whatever the
\* later predicates are.
C5_FirstMatchGroup ==
    \A c \in Calls :
        (pc[c] \in {"build", "llm", "convert"}
           \/ (Returned(c) /\ result[c].has_relevant_predicates)
           \/ pc[c] = "raised") =>
            LET M == MatchIdx(arg[c])
            IN  /\ M /= {}
                /\ predicate_group[c] =
                      inv_form_mapping[Token(arg[c][Kth(M, 1)]).lemma_]
                /\ predicate_group[c] =
                      get_predicate_group(find_verbs(arg[c]).verbs)
                /\ prompt[c] /= <<>> =>
                      prompt[c][1].content.body = role_mapping[predicate_group[c]]

\* a sentence with predicates of two groups got its prompt
C5_Witness ==
    \E c \in Calls :
        /\ pc[c] = "llm"
        /\ Len(lemmas[c]) = 2
        /\ inv_form_mapping[lemmas[c][1]] /= inv_form_mapping[lemmas[c][2]]
        /\ prompt[c] /= <<>>

\* the Gateway answered with something that is not a JSON object holding a
\* roles list
Unparseable(content) ==
    \/ content.t = "none"
    \/ content.t = "str" /\ ~content.json
    \/ content.t = "str" /\ content.json /\ content.value.t /= "object"
    \/ /\ content.t = "str" /\ content.json /\ content.value.t = "object"
       /\ \/ "roles" \notin DOMAIN content.value.members
          \/ content.value.members.roles.t /= "array"

\* C6: when the Gateway returns output that cannot be parsed (no content, a
\* non-JSON string, JSON without a roles list), analyze does not raise and
\* returns has_relevant_predicates = true, the extracted predicates and
\* lemmas, roles = [] and no error field.
C6_MalformedOutputIsSoft ==
    \A c \in Calls :
        (GatewayAnswered(c) /\ Unparseable(response[c].content)) =>
            /\ pc[c] \in {"convert", "returned"}
            /\ Returned(c) =>
                  /\ result[c].has_relevant_predicates
                  /\ result[c].predicates = extract_predicates(arg[c]).forms
                  /\ result[c].lemmas = extract_predicates(arg[c]).lemmas
                  /\ result[c].roles = <<>>
                  /\ "error" \notin DOMAIN result[c]

\* a non-JSON answer was converted
C6_Witness ==
    \E c \in Calls :
        /\ Returned(c)
        /\ GatewayAnswered(c)
        /\ response[c].content = [t |-> "str", json |-> FALSE]
        /\ result[c].predicates /= <<>>

\* the entry has a text holding both delimiters
HasBoth(e) ==
    /\ e.t = "object"
    /\ "text" \in DOMAIN e.members
    /\ \E i \in 1..Len(e.members.text) : e.members.text[i] = "("
    /\ \E i \in 1..Len(e.members.text) : e.members.text[i] = ")"

FirstAt(s, ch) ==
    CHOOSE i \in 1..Len(s) : s[i] = ch /\ \A j \in 1..(i - 1) : s[j] /= ch

\* the characters between the first "(" and the first ")"
Between(s) ==
    LET a == FirstAt(s, "(")
        b == FirstAt(s, ")")
    IN  [k \in 1..(b - a - 1) |-> s[a + k]]

\* C7: every entry of the Gateway output whose text holds "(" and ")" gives
\* a role with the entry's label and one word of the text between the first
\* "(" and the first ")": the first word for Experiencer, the last word for
\* any other label; an entry lacking a delimiter gives no role; the roles
\* keep the order of the entries.
C7_PhraseHeuristic ==
    \A c \in Calls :
        (Returned(c) /\ GatewayAnswered(c)
           /\ ~Unparseable(response[c].content)) =>
            LET items == response[c].content.value.members.roles.items
                E     == {i \in 1..Len(items) : HasBoth(items[i])}
                R     == result[c].roles
            IN  /\ Len(R) = Cardinality(E)
                /\ \A k \in 1..Len(R) :
                      LET e == items[Kth(E, k)].members
                          w == split(Between(e.text))
                      IN  /\ "role" \in DOMAIN e
                          /\ R[k].role = e.role
                          /\ w /= <<>>
                          /\ R[k].text = IF e.role = "Experiencer"
                                         THEN w[1] ELSE w[Len(w)]

\* C8: the text field of every returned result is the string analyze was
\* called with.
C8_TextIsInput ==
    \A c \in Calls : Returned(c) => result[c].text = arg[c]

\* C9: every role of a returned result has a label of the closed set and a
\* text of 1 to 64 characters.
C9_RolesWellFormed ==
    \A c \in Calls :
        Returned(c) =>
            \A k \in 1..Len(result[c].roles) :
                /\ result[c].roles[k].role \in RoleLabels
                /\ Len(result[c].roles[k].text) >= TextMinLength
                /\ Len(result[c].roles[k].text) <= TextMaxLength

Done(c) == pc[c] \in {"returned", "raised"}

\* each finished call ended as analyze alone ends on its text and its LLM
\* outcome
EndsAsAlone(c) ==
    LET alone == analyze(arg[c], response[c])
    IN  IF pc[c] = "returned"
        THEN alone.kind = "return" /\ result[c] = alone.value
        ELSE alone.kind = "raise" /\ raised[c] = alone.error

\* C10: analyze never modifies the tables or the derived indices; under any
\* interleaving each call ends as it would alone, and two calls with the same
\* text and the same Gateway behaviour end identically.
C10_Stateless ==
    /\ [][store' = store]_vars
    /\ [](\A c \in Calls : Done(c) => EndsAsAlone(c))
    /\ [](\A c, d \in Calls :
            (Done(c) /\ Done(d) /\ arg[c] = arg[d] /\ response[c] = response[d]) =>
                (pc[c] = pc[d] /\ result[c] = result[d] /\ raised[c] = raised[d]))

\* two calls in flight on the same text got the same answer and both
\* returned roles
C10_Witness ==
    \E c, d \in Calls :
        /\ c /= d
        /\ Returned(c) /\ Returned(d)
        /\ arg[c] = arg[d]
        /\ response[c] = response[d]
        /\ result[c].has_relevant_predicates
        /\ result[c].roles /= <<>>

\* a phrase can be extracted from the entry: it has both fields and a word
\* between the first "(" and the first ")" of its text
Extractable(e) ==
    /\ HasBoth(e)
    /\ "role" \in DOMAIN e.members
    /\ find(e.members.text, "(") < find(e.members.text, ")")
    /\ split(Between(e.members.text)) /= <<>>

\* C11: in a parseable Gateway output only the entries from which no phrase
\* can be extracted (no "(" or ")", no word between them, a missing field)
\* are dropped: every other entry still gives its role, in order, so one
\* offending entry never empties the roles of the rest.
C11_OnlyOffenderDropped ==
    \A c \in Calls :
        (Returned(c) /\ GatewayAnswered(c)
           /\ ~Unparseable(response[c].content)) =>
            LET items == response[c].content.value.members.roles.items
                G     == {i \in 1..Len(items) : Extractable(items[i])}
            IN  /\ Len(result[c].roles) = Cardinality(G)
                /\ \A k \in 1..Cardinality(G) :
                      result[c].roles[k].role = items[Kth(G, k)].members.role

\* positions, in corpus order, of the examples of group g
GroupIdx(g) == {i \in 1..Len(examples) : examples[i].group = g}

\* the call has a built prompt
PromptBuilt(c) == prompt[c] /= <<>>

\* C12: for a group with n >= 1 examples, make_prompt returns exactly
\* 2 + 2*min(2, n) messages: the system message, then for each of the first
\* min(2, n) examples of the group, in corpus order, a user message with the
\* example's text followed by an assistant message, then the user message
\* with the input text; no other example appears.
C12_PromptShape ==
    \A c \in Calls :
        (PromptBuilt(c) /\ GroupIdx(predicate_group[c]) /= {}) =>
            LET G == GroupIdx(predicate_group[c])
                n == Cardinality(G)
                m == IF n < ExamplesPerPrompt THEN n ELSE ExamplesPerPrompt
                p == prompt[c]
            IN  /\ Len(p) = 2 + 2 * m
                /\ p[1].role = "system"
                /\ p[1].content.frame = "task"
                /\ \A k \in 1..m :
                      /\ p[2 * k].role = "user"
                      /\ p[2 * k].content =
                            [frame |-> "example", body |-> examples[Kth(G, k)].text]
                      /\ p[2 * k + 1].role = "assistant"
                      /\ p[2 * k + 1].content.frame = "roles"
                /\ p[Len(p)].role = "user"
                /\ p[Len(p)].content = [frame |-> "query", body |-> arg[c]]

\* a prompt built for a group whose three examples are all in the corpus:
\* the third one is left out
C12_Witness ==
    \E c \in Calls :
        /\ PromptBuilt(c)
        /\ Cardinality(GroupIdx(predicate_group[c])) = 3
        /\ Len(prompt[c]) = 6

\* make_prompt was called and is over, one way or the other
BuildOver(c) ==
    \/ pc[c] \in {"llm", "convert", "raised"}
    \/ Returned(c) /\ result[c].has_relevant_predicates

\* C13: for a group that has a role rule but no example in the corpus,
\* make_prompt succeeds with exactly two messages, the system message
\* followed by the user message with the input text.
C13_NoExamplesTwoMessages ==
    \A c \in Calls :
        (/\ BuildOver(c)
         /\ predicate_group[c] \in DOMAIN role_mapping
         /\ GroupIdx(predicate_group[c]) = {}) =>
            /\ pc[c] /= "raised"
            /\ Len(prompt[c]) = 2
            /\ prompt[c][1].role = "system"
            /\ prompt[c][2].role = "user"
            /\ prompt[c][2].content = [frame |-> "query", body |-> arg[c]]

\* the paths of analyze through its steps
Paths ==
    { <<"PredicateCheck", "Irrelevant">>,
      <<"PredicateCheck", "GroupResolved", "PromptBuilt", "LLMCalled",
        "Normalized">>,
      <<"PredicateCheck", "GroupResolved", "PromptBuilt", "LLMCalled",
        "LLMFailed">> }

IsPrefix(s, t) == Len(s) <= Len(t) /\ SubSeq(t, 1, Len(s)) = s

Terminal == {"Irrelevant", "Normalized", "LLMFailed"}

\* the steps taken so far follow one path, and the state agrees with them
InOrder(c) ==
    /\ \E p \in Paths : IsPrefix(trace[c], p)
    /\ Returned(c) <=> (trace[c] /= <<>> /\ trace[c][Len(trace[c])] \in Terminal)
    /\ gwCalls[c] <= 1
    /\ gwCalls[c] = Cardinality({i \in 1..Len(trace[c]) : trace[c][i] = "LLMCalled"})
    /\ gwCalls[c] = 1 => (PromptBuilt(c) /\ trace[c][3] = "PromptBuilt")
    /\ GatewayRaised(c) =>
          /\ Returned(c)
          /\ trace[c] = <<"PredicateCheck", "GroupResolved", "PromptBuilt",
                          "LLMCalled", "LLMFailed">>
          /\ "error" \in DOMAIN result[c]

\* C14: in every execution of analyze the steps occur in the order predicate
\* check, group resolution, prompt built, Gateway called, terminal result;
\* the Gateway is called at most once, only after the prompt was built, and
\* a Gateway failure is followed by no second call but leads directly to
\* the LLMFailed result.
C14_StepOrder ==
    /\ [](\A c \in Calls : InOrder(c))
    /\ [][\A c \in Calls :
            gwCalls'[c] /= gwCalls[c] =>
                /\ gwCalls[c] = 0 /\ gwCalls'[c] = 1
                /\ PromptBuilt(c)
                /\ ~GatewayRaised(c)
                /\ (response'[c].kind = "raise" =>
                        /\ pc'[c] = "returned"
                        /\ "error" \in DOMAIN result'[c])]_vars

\* the Gateway failed and the call ended in the LLMFailed result after one call
C14_Witness ==
    \E c \in Calls :
        /\ Returned(c)
        /\ GatewayRaised(c)
        /\ gwCalls[c] = 1
        /\ trace[c][Len(trace[c])] = "LLMFailed"

====
